---- MODULE Spec2Model ----
(***************************************************************************)
(* Model of src/process.py: the frame loop of main (detection scheduling,  *)
(* the region cache and its empty streak, redaction, encoder writes), the  *)
(* region adapter detect_text_boxes, the redactor blur_or_black and the    *)
(* audio remux step mux_audio with its fallback.                           *)
(*                                                                         *)
(* Polygon coordinates returned by the OCR reader are floats; they are     *)
(* represented in half-pixel units (the integer 21 stands for 10.5) and    *)
(* int() is modelled as truncation toward zero.  Confidences and the       *)
(* confidence threshold are represented in tenths.                         *)
(***************************************************************************)
EXTENDS Integers, Sequences, FiniteSets, TLC

\* ---- bounds of the model ----
MaxFrames == 7      \* longest input video, in frames
MaxN == 2           \* largest --detect-every
MaxDet == 2         \* longest reader result list in the adapter specification
MaxWidth == 120     \* widest region in the kernel specification
MaxRegions == 2     \* longest region list in the redactor specification

\* ---- program constants ----
min_w == 10
min_h == 10
ClearAfter == 3

VARIABLES
    pc,            \* position in main
    exitCode,      \* process exit status, -1 while running
    detect_every,  \* args.detect_every
    conf_thresh,   \* args.conf_thresh (tenths)
    mode,          \* args.mode
    numFrames,     \* number of frames the video source holds
    width, height, \* CAP_PROP_FRAME_WIDTH / CAP_PROP_FRAME_HEIGHT
    capPos,        \* read position of the video source
    capState,      \* "none" | "open" | "released"
    writerState,   \* "none" | "open" | "released"
    releaseCount,  \* number of writer.release() calls
    frame_idx, last_boxes, empty_streak, new_boxes, frame,  \* locals of main
    written,       \* frames passed to writer.write, in call order
    fs,            \* the two files: temp (video-only) and out (final output)
    muxCalls,      \* number of mux_audio calls
    muxOutcome,    \* how subprocess.run ended: "none" | "ok" | "missing" | "failed"
    unlinkResult,  \* "none" | "ok" | "oserror"
    renamed,       \* number of video_only_path.replace calls
    detectCalls,   \* source index of every frame handed to reader.readtext
    outcomes,      \* value returned by every completed detect_text_boxes call
    results, boxes, \* adapter specification: reader result list and return value
    region_w, ksize, \* kernel specification: region width x2 - x1 and the ksize computed
    img, rboxes,   \* redactor specification: pixels of a frame and the region list
    once, twice    \* redactor specification: pixels after one and after two calls

vars == <<pc, exitCode, detect_every, conf_thresh, mode, numFrames, width,
          height, capPos, capState, writerState, releaseCount, frame_idx,
          last_boxes, empty_streak, new_boxes, frame, written, fs, muxCalls,
          muxOutcome, unlinkResult, renamed, detectCalls, outcomes,
          results, boxes, region_w, ksize, img, rboxes, once, twice>>

\* the variables only the specifications of the pure functions use
pureVars == <<region_w, ksize, img, rboxes, once, twice>>

\* ---- helpers ----
Min(a, b) == IF a <= b THEN a ELSE b
Max(a, b) == IF a >= b THEN a ELSE b
SetMin(S) == CHOOSE m \in S : \A e \in S : m <= e
SetMax(S) == CHOOSE m \in S : \A e \in S : m >= e

\* int() of a float given in half units: truncation toward zero
PyInt(v) == IF v >= 0 THEN v \div 2 ELSE -((-v) \div 2)


\* variant: the clamp is left out
ClampUnclamped(limit, v) == v

\* max(0, min(limit - 1, v))
Clamp(limit, v) == Max(0, Min(limit - 1, v))

\* ---- detect_text_boxes ----
\* x1, y1, x2, y2 of one reader result: int() of every point, min/max,
\* then the clamp to the frame
ClampedBox(res, w, h) ==
    LET xs == {PyInt(res.bbox[i][1]) : i \in DOMAIN res.bbox}
        ys == {PyInt(res.bbox[i][2]) : i \in DOMAIN res.bbox}
    IN  <<Clamp(w, SetMin(xs)), Clamp(h, SetMin(ys)),
          Clamp(w, SetMax(xs)), Clamp(h, SetMax(ys))>>


\* variant: a confidence equal to the threshold is dropped too
SkippedAtThreshold(res, w, h, thresh) ==
    LET b == ClampedBox(res, w, h)
    IN  IF res.conf <= thresh THEN TRUE
        ELSE IF b[3] <= b[1] \/ b[4] <= b[2] THEN TRUE
        ELSE (b[3] - b[1]) < min_w \/ (b[4] - b[2]) < min_h

\* the three `continue` tests of the loop body, in the code's order
Skipped(res, w, h, thresh) ==
    LET b == ClampedBox(res, w, h)
    IN  IF res.conf < thresh THEN TRUE
        ELSE IF b[3] <= b[1] \/ b[4] <= b[2] THEN TRUE
        ELSE (b[3] - b[1]) < min_w \/ (b[4] - b[2]) < min_h

RECURSIVE DetectLoop(_, _, _, _, _, _)
DetectLoop(rs, i, acc, w, h, thresh) ==
    IF i > Len(rs) THEN acc
    ELSE IF Skipped(rs[i], w, h, thresh)
         THEN DetectLoop(rs, i + 1, acc, w, h, thresh)
         ELSE DetectLoop(rs, i + 1, Append(acc, ClampedBox(rs[i], w, h)),
                         w, h, thresh)

detect_text_boxes(fr, rs, thresh) ==
    DetectLoop(rs, 1, <<>>, fr.shape[2], fr.shape[1], thresh)

\* ---- blur_or_black ----
\* n | 1
BitOr1(n) == IF n % 2 = 0 THEN n + 1 ELSE n

\* variant: the max(15, ...) is left out
KernelSizeNoFloor(rw) ==
    LET k == BitOr1(rw \div 3)
    IN  IF k % 2 = 1 THEN k ELSE k + 1

\* ksize of the blur branch for a region of width rw
KernelSize(rw) ==
    LET k == Max(15, BitOr1(rw \div 3))
    IN  IF k % 2 = 1 THEN k ELSE k + 1

\* A frame is [src, shape, marks]: marks lists, in order, the rectangles the
\* redactor has overwritten and how (ksize 0 stands for the black fill).
RECURSIVE RedactLoop(_, _, _, _)
RedactLoop(fr, bxs, i, md) ==
    IF i > Len(bxs) THEN fr
    ELSE LET w  == fr.shape[2]
             h  == fr.shape[1]
             x1 == Clamp(w, bxs[i][1])
             x2 == Clamp(w, bxs[i][3])
             y1 == Clamp(h, bxs[i][2])
             y2 == Clamp(h, bxs[i][4])
         IN  IF x2 <= x1 \/ y2 <= y1
             THEN RedactLoop(fr, bxs, i + 1, md)
             ELSE RedactLoop(
                    [fr EXCEPT !.marks = Append(@,
                        [box |-> <<x1, y1, x2, y2>>,
                         ksize |-> IF md = "blur" THEN KernelSize(x2 - x1) ELSE 0])],
                    bxs, i + 1, md)

\* variant: the two branches of the mode test are swapped
blur_or_black_swapped(fr, bxs, md) ==
    RedactLoop(fr, bxs, 1, IF md = "blur" THEN "black" ELSE "blur")

blur_or_black(fr, bxs, md) == RedactLoop(fr, bxs, 1, md)

\* Pixels are a function from <<row, column>> to a pixel value.  A pixel value
\* is a sequence: <<v>> for a decoded value v, <<0>> once blacked, and the old
\* value with ksize appended once cv2.GaussianBlur with that ksize has been
\* written over it (the smoothed value itself is not computed).
\* frame[y1:y2, x1:x2] = 0, or = blurred: rows y1..y2-1, columns x1..x2-1
ApplyMark(px, m) ==
    [p \in DOMAIN px |->
        IF /\ m.box[2] <= p[1] /\ p[1] < m.box[4]
           /\ m.box[1] <= p[2] /\ p[2] < m.box[3]
        THEN IF m.ksize = 0 THEN <<0>> ELSE Append(px[p], m.ksize)
        ELSE px[p]]

\* the pixels of a frame after the writes listed in marks, in order
RECURSIVE Render(_, _, _)
Render(px, marks, i) ==
    IF i > Len(marks) THEN px ELSE Render(ApplyMark(px, marks[i]), marks, i + 1)

\* ---- inputs ----
\* Polygons a reader can return, four points each, in half-pixel units.
Rect(xa, ya, xb, yb) == <<<<xa, ya>>, <<xb, ya>>, <<xb, yb>>, <<xa, yb>>>>
PolyIn      == Rect(4, 6, 40, 30)          \* (2,3)-(20,15), inside a 32x24 frame
PolyOut     == Rect(-10, -5, 200, 120)     \* sticks out on every side
PolySmall   == Rect(10, 10, 18, 40)        \* (5,5)-(9,20): 4 wide
PolyFrac    == Rect(1, 3, 21, 23)          \* (0.5,1.5)-(10.5,11.5)
PolyBeyond  == Rect(100, 10, 140, 40)      \* entirely right of the frame
PolyTilted  == <<<<6, 0>>, <<50, 8>>, <<44, 46>>, <<0, 38>>>>  \* rotated quadrilateral
Det(poly, c) == [bbox |-> poly, conf |-> c]

Sizes == {<<32, 24>>, <<12, 12>>}          \* <<width, height>>
Thresholds == {0, 5}
Modes == {"blur", "black"}

\* reader.readtext results offered to the frame loop
ReaderOutputs ==
    { <<>>,
      <<Det(PolySmall, 9), Det(PolyBeyond, 9)>>,
      <<Det(PolyOut, 9), Det(PolyIn, 3)>>,
      <<Det(PolyFrac, 5), Det(PolyTilted, 9)>> }

NoFile == [kind |-> "absent"]
VideoFile(frames) == [kind |-> "video_only", frames |-> frames]
MuxedFile(frames) == [kind |-> "muxed", frames |-> frames]
PartialFile == [kind |-> "partial"]
NoFrame == [src |-> -1, shape |-> <<0, 0>>, marks |-> <<>>]


\* ---- main: scheduling and the region cache ----
\* variant: the index is tested after its increment
IsDetectionFrameShifted(idx, n) == (idx + 1) % n = 0

\* variant: the interval is ignored, every frame is a detection frame
IsDetectionFrameAlways(idx, n) == TRUE

\* frame_idx % args.detect_every == 0 (the caller handles detect_every = 0)
IsDetectionFrame(idx, n) == idx % n = 0


\* variant: the streak test is off by one
CacheUpdateLate(lb, es, nb) ==
    IF nb # <<>>
    THEN [last_boxes |-> nb, empty_streak |-> 0]
    ELSE [last_boxes |-> IF es + 1 > ClearAfter THEN <<>> ELSE lb,
          empty_streak |-> es + 1]

\* variant: the cache is cleared by the first empty detection
CacheUpdateEager(lb, es, nb) ==
    IF nb # <<>>
    THEN [last_boxes |-> nb, empty_streak |-> 0]
    ELSE [last_boxes |-> <<>>, empty_streak |-> es + 1]

\* variant: the clearing of last_boxes is forgotten
CacheUpdateNoClear(lb, es, nb) ==
    IF nb # <<>>
    THEN [last_boxes |-> nb, empty_streak |-> 0]
    ELSE [last_boxes |-> lb, empty_streak |-> es + 1]

\* variant: a detection with regions does not reset the streak
CacheUpdateNoReset(lb, es, nb) ==
    IF nb # <<>>
    THEN [last_boxes |-> nb, empty_streak |-> es]
    ELSE [last_boxes |-> IF es + 1 >= ClearAfter THEN <<>> ELSE lb,
          empty_streak |-> es + 1]

\* the if/else on new_boxes: the new values of last_boxes and empty_streak
CacheUpdate(lb, es, nb) ==
    IF nb # <<>>
    THEN [last_boxes |-> nb, empty_streak |-> 0]
    ELSE [last_boxes |-> IF es + 1 >= ClearAfter THEN <<>> ELSE lb,
          empty_streak |-> es + 1]


\* variant: a copy instead of a move
ReplaceCopies(f, from, to) == [f EXCEPT ![to] = f[from]]

\* Path.replace: the source takes the place of the destination
Replace(f, from, to) == [f EXCEPT ![to] = f[from], ![from] = NoFile]

Init ==
    /\ pc = "start"
    /\ exitCode = -1
    /\ detect_every \in 0..MaxN
    /\ conf_thresh \in Thresholds
    /\ mode \in Modes
    /\ numFrames = 0
    /\ width = 0
    /\ height = 0
    /\ capPos = 0
    /\ capState = "none"
    /\ writerState = "none"
    /\ releaseCount = 0
    /\ frame_idx = 0
    /\ last_boxes = <<>>
    /\ empty_streak = 0
    /\ new_boxes = <<>>
    /\ frame = NoFrame
    /\ written = <<>>
    /\ fs = [temp |-> NoFile, out |-> NoFile]
    /\ muxCalls = 0
    /\ muxOutcome = "none"
    /\ unlinkResult = "none"
    /\ renamed = 0
    /\ detectCalls = <<>>
    /\ outcomes = <<>>
    /\ results = <<>>
    /\ boxes = <<>>
    /\ region_w = 0
    /\ ksize = 0
    /\ img = <<>>
    /\ rboxes = <<>>
    /\ once = <<>>
    /\ twice = <<>>

\* variant: SystemExit without the status
Exit1Zero == pc' = "exited" /\ exitCode' = 0

\* raise SystemExit(1)
Exit1 == pc' = "exited" /\ exitCode' = 1
\* an exception nobody catches: traceback, exit status 1
Crash == pc' = "crashed" /\ exitCode' = 1

\* input_path.is_file()
CheckInput ==
    /\ pc = "start"
    /\ \E isFile \in BOOLEAN :
         IF isFile THEN pc' = "init_reader" /\ exitCode' = exitCode ELSE Exit1
    /\ UNCHANGED <<detect_every, conf_thresh, mode, numFrames, width, height,
                   capPos, capState, writerState, releaseCount, frame_idx,
                   last_boxes, empty_streak, new_boxes, frame, written, fs,
                   muxCalls, muxOutcome, unlinkResult, renamed, detectCalls,
                   outcomes, results, boxes, pureVars>>

\* Reader(["ja", "en"], gpu=args.gpu): returns, or raises
InitReader ==
    /\ pc = "init_reader"
    /\ \E ok \in BOOLEAN :
         IF ok THEN pc' = "open_cap" /\ exitCode' = exitCode ELSE Crash
    /\ UNCHANGED <<detect_every, conf_thresh, mode, numFrames, width, height,
                   capPos, capState, writerState, releaseCount, frame_idx,
                   last_boxes, empty_streak, new_boxes, frame, written, fs,
                   muxCalls, muxOutcome, unlinkResult, renamed, detectCalls,
                   outcomes, results, boxes, pureVars>>

\* cv2.VideoCapture, isOpened, and the stream parameters
OpenCapture ==
    /\ pc = "open_cap"
    /\ \/ /\ Exit1
          /\ UNCHANGED <<numFrames, width, height, capState>>
       \/ \E n \in 0..MaxFrames, sz \in Sizes :
            /\ numFrames' = n
            /\ width' = sz[1]
            /\ height' = sz[2]
            /\ capState' = "open"
            /\ pc' = "open_writer"
            /\ exitCode' = exitCode
    /\ UNCHANGED <<detect_every, conf_thresh, mode, capPos, writerState,
                   releaseCount, frame_idx, last_boxes, empty_streak,
                   new_boxes, frame, written, fs, muxCalls, muxOutcome,
                   unlinkResult, renamed, detectCalls, outcomes, results, boxes, pureVars>>

\* ensure_video_writer, then frame_idx = 0, last_boxes = [], empty_streak = 0
OpenWriter ==
    /\ pc = "open_writer"
    /\ \/ /\ Crash                      \* RuntimeError: not writer.isOpened()
          /\ UNCHANGED <<writerState, fs>>
       \/ /\ writerState' = "open"
          /\ fs' = [fs EXCEPT !.temp = VideoFile(<<>>)]
          /\ pc' = "loop"
          /\ exitCode' = exitCode
    /\ frame_idx' = 0
    /\ last_boxes' = <<>>
    /\ empty_streak' = 0
    /\ UNCHANGED <<detect_every, conf_thresh, mode, numFrames, width, height,
                   capPos, capState, releaseCount, new_boxes, frame, written,
                   muxCalls, muxOutcome, unlinkResult, renamed, detectCalls,
                   outcomes, results, boxes, pureVars>>

\* cap.read(), `if not ret: break`, and the test frame_idx % detect_every == 0
ReadFrame ==
    /\ pc = "loop"
    /\ IF capPos >= numFrames
       THEN /\ pc' = "release"
            /\ UNCHANGED <<exitCode, capPos, frame>>
       ELSE /\ capPos' = capPos + 1
            /\ frame' = [src |-> capPos, shape |-> <<height, width>>,
                         marks |-> <<>>]
            /\ IF detect_every = 0
               THEN Crash               \* ZeroDivisionError
               ELSE /\ pc' = IF IsDetectionFrame(frame_idx, detect_every)
                             THEN "detect" ELSE "redact"
                    /\ exitCode' = exitCode
    /\ UNCHANGED <<detect_every, conf_thresh, mode, numFrames, width, height,
                   capState, writerState, releaseCount, frame_idx, last_boxes,
                   empty_streak, new_boxes, written, fs, muxCalls, muxOutcome,
                   unlinkResult, renamed, detectCalls, outcomes, results, boxes, pureVars>>

\* detect_text_boxes returns: the cache is updated from new_boxes
Detect ==
    /\ pc = "detect"
    /\ detectCalls' = Append(detectCalls, frame.src)
    /\ \E rs \in ReaderOutputs :
         LET nb == detect_text_boxes(frame, rs, conf_thresh)
             c  == CacheUpdate(last_boxes, empty_streak, nb)
         IN  /\ new_boxes' = nb
             /\ last_boxes' = c.last_boxes
             /\ empty_streak' = c.empty_streak
             /\ outcomes' = Append(outcomes, nb)
    /\ pc' = "redact"
    /\ UNCHANGED <<exitCode, detect_every, conf_thresh, mode, numFrames, width,
                   height, capPos, capState, writerState, releaseCount,
                   frame_idx, frame, written, fs, muxCalls, muxOutcome,
                   unlinkResult, renamed, results, boxes, pureVars>>

\* variant: the exception is caught and the frame processed with the cache
DetectRaisesSwallowed ==
    /\ pc = "detect"
    /\ detectCalls' = Append(detectCalls, frame.src)
    /\ pc' = "redact"
    /\ UNCHANGED <<exitCode, detect_every, conf_thresh, mode, numFrames, width,
                   height, capPos, capState, writerState, releaseCount,
                   frame_idx, last_boxes, empty_streak, new_boxes, frame,
                   written, fs, muxCalls, muxOutcome, unlinkResult, renamed,
                   outcomes, results, boxes, pureVars>>

\* reader.readtext raises inside detect_text_boxes: main does not catch it
DetectRaises ==
    /\ pc = "detect"
    /\ detectCalls' = Append(detectCalls, frame.src)
    /\ Crash
    /\ UNCHANGED <<detect_every, conf_thresh, mode, numFrames, width, height,
                   capPos, capState, writerState, releaseCount, frame_idx,
                   last_boxes, empty_streak, new_boxes, frame, written, fs,
                   muxCalls, muxOutcome, unlinkResult, renamed, outcomes,
                   results, boxes, pureVars>>


\* variant: a frame with nothing to redact is not written
RedactWriteSkips ==
    /\ pc = "redact"
    /\ frame' = blur_or_black(frame, last_boxes, mode)
    /\ IF last_boxes = <<>>
       THEN UNCHANGED <<written, fs>>
       ELSE /\ written' = Append(written, frame')
            /\ fs' = [fs EXCEPT !.temp = VideoFile(Append(@.frames, frame'))]
    /\ frame_idx' = frame_idx + 1
    /\ pc' = "loop"
    /\ UNCHANGED <<exitCode, detect_every, conf_thresh, mode, numFrames, width,
                   height, capPos, capState, writerState, releaseCount,
                   last_boxes, empty_streak, new_boxes, muxCalls, muxOutcome,
                   unlinkResult, renamed, detectCalls, outcomes, results, boxes, pureVars>>

\* blur_or_black, writer.write, frame_idx += 1
RedactWrite ==
    /\ pc = "redact"
    /\ frame' = blur_or_black(frame, last_boxes, mode)
    /\ written' = Append(written, frame')
    /\ fs' = [fs EXCEPT !.temp = VideoFile(Append(@.frames, frame'))]
    /\ frame_idx' = frame_idx + 1
    /\ pc' = "loop"
    /\ UNCHANGED <<exitCode, detect_every, conf_thresh, mode, numFrames, width,
                   height, capPos, capState, writerState, releaseCount,
                   last_boxes, empty_streak, new_boxes, muxCalls, muxOutcome,
                   unlinkResult, renamed, detectCalls, outcomes, results, boxes, pureVars>>


\* variant: writer.release() is forgotten
ReleaseCapOnly ==
    /\ pc = "release"
    /\ capState' = "released"
    /\ pc' = "mux"
    /\ UNCHANGED <<exitCode, detect_every, conf_thresh, mode, numFrames, width,
                   height, capPos, writerState, releaseCount, frame_idx,
                   last_boxes, empty_streak, new_boxes, frame, written, fs,
                   muxCalls, muxOutcome, unlinkResult, renamed, detectCalls,
                   outcomes, results, boxes, pureVars>>

\* cap.release(); writer.release()
Release ==
    /\ pc = "release"
    /\ capState' = "released"
    /\ writerState' = "released"
    /\ releaseCount' = releaseCount + 1
    /\ pc' = "mux"
    /\ UNCHANGED <<exitCode, detect_every, conf_thresh, mode, numFrames, width,
                   height, capPos, frame_idx, last_boxes, empty_streak,
                   new_boxes, frame, written, fs, muxCalls, muxOutcome,
                   unlinkResult, renamed, detectCalls, outcomes, results, boxes, pureVars>>


\* variant: the OSError of unlink is not caught
MuxAudioNoCatch ==
    /\ pc = "mux"
    /\ muxCalls' = muxCalls + 1
    /\ \/ /\ muxOutcome' = "missing"
          /\ fs' = Replace(fs, "temp", "out")
          /\ renamed' = renamed + 1
          /\ unlinkResult' = unlinkResult
          /\ pc' = "finish" /\ exitCode' = exitCode
       \/ /\ muxOutcome' = "failed"
          /\ \E left \in {fs.out, PartialFile} :
               fs' = Replace([fs EXCEPT !.out = left], "temp", "out")
          /\ renamed' = renamed + 1
          /\ unlinkResult' = unlinkResult
          /\ pc' = "finish" /\ exitCode' = exitCode
       \/ /\ muxOutcome' = "ok"
          /\ \E u \in {"ok", "oserror"} :
               /\ unlinkResult' = u
               /\ fs' = [temp |-> IF u = "ok" THEN NoFile ELSE fs.temp,
                         out  |-> MuxedFile(fs.temp.frames)]
               /\ IF u = "ok" THEN pc' = "finish" /\ exitCode' = exitCode
                  ELSE Crash
          /\ renamed' = renamed
    /\ UNCHANGED <<detect_every, conf_thresh, mode, numFrames, width,
                   height, capPos, capState, writerState, releaseCount,
                   frame_idx, last_boxes, empty_streak, new_boxes, frame,
                   written, detectCalls, outcomes, results, boxes, pureVars>>

\* variant: CalledProcessError is not caught
MuxAudioFailFatal ==
    /\ pc = "mux"
    /\ muxCalls' = muxCalls + 1
    /\ \/ /\ muxOutcome' = "missing"
          /\ fs' = Replace(fs, "temp", "out")
          /\ renamed' = renamed + 1
          /\ unlinkResult' = unlinkResult
          /\ pc' = "finish" /\ exitCode' = exitCode
       \/ /\ muxOutcome' = "failed"
          /\ \E left \in {fs.out, PartialFile} : fs' = [fs EXCEPT !.out = left]
          /\ renamed' = renamed
          /\ unlinkResult' = unlinkResult
          /\ Crash
       \/ /\ muxOutcome' = "ok"
          /\ \E u \in {"ok", "oserror"} :
               /\ unlinkResult' = u
               /\ fs' = [temp |-> IF u = "ok" THEN NoFile ELSE fs.temp,
                         out  |-> MuxedFile(fs.temp.frames)]
          /\ renamed' = renamed
          /\ pc' = "finish" /\ exitCode' = exitCode
    /\ UNCHANGED <<detect_every, conf_thresh, mode, numFrames, width,
                   height, capPos, capState, writerState, releaseCount,
                   frame_idx, last_boxes, empty_streak, new_boxes, frame,
                   written, detectCalls, outcomes, results, boxes, pureVars>>

\* variant: the cleanup sits in a `finally`, so it also runs after the rename
MuxAudioFinally ==
    /\ pc = "mux"
    /\ muxCalls' = muxCalls + 1
    /\ \/ /\ muxOutcome' = "missing"
          /\ fs' = Replace(fs, "temp", "out")
          /\ renamed' = renamed + 1
          /\ unlinkResult' = "oserror"
       \/ /\ muxOutcome' = "failed"
          /\ \E left \in {fs.out, PartialFile} :
               fs' = Replace([fs EXCEPT !.out = left], "temp", "out")
          /\ renamed' = renamed + 1
          /\ unlinkResult' = "oserror"
       \/ /\ muxOutcome' = "ok"
          /\ \E u \in {"ok", "oserror"} :
               /\ unlinkResult' = u
               /\ fs' = [temp |-> IF u = "ok" THEN NoFile ELSE fs.temp,
                         out  |-> MuxedFile(fs.temp.frames)]
          /\ renamed' = renamed
    /\ pc' = "finish"
    /\ UNCHANGED <<exitCode, detect_every, conf_thresh, mode, numFrames, width,
                   height, capPos, capState, writerState, releaseCount,
                   frame_idx, last_boxes, empty_streak, new_boxes, frame,
                   written, detectCalls, outcomes, results, boxes, pureVars>>

\* mux_audio: subprocess.run ends in one of three ways
MuxAudio ==
    /\ pc = "mux"
    /\ muxCalls' = muxCalls + 1
    /\ \/ /\ muxOutcome' = "missing"    \* FileNotFoundError
          /\ fs' = Replace(fs, "temp", "out")
          /\ renamed' = renamed + 1
          /\ unlinkResult' = unlinkResult
       \/ /\ muxOutcome' = "failed"     \* CalledProcessError
          /\ \E left \in {fs.out, PartialFile} :
               fs' = Replace([fs EXCEPT !.out = left], "temp", "out")
          /\ renamed' = renamed + 1
          /\ unlinkResult' = unlinkResult
       \/ /\ muxOutcome' = "ok"
          /\ \E u \in {"ok", "oserror"} :
               /\ unlinkResult' = u
               /\ fs' = [temp |-> IF u = "ok" THEN NoFile ELSE fs.temp,
                         out  |-> MuxedFile(fs.temp.frames)]
          /\ renamed' = renamed
    /\ pc' = "finish"
    /\ UNCHANGED <<exitCode, detect_every, conf_thresh, mode, numFrames, width,
                   height, capPos, capState, writerState, releaseCount,
                   frame_idx, last_boxes, empty_streak, new_boxes, frame,
                   written, detectCalls, outcomes, results, boxes, pureVars>>

\* print("Done. ...") and the return of main
Finish ==
    /\ pc = "finish"
    /\ pc' = "done"
    /\ exitCode' = 0
    /\ UNCHANGED <<detect_every, conf_thresh, mode, numFrames, width, height,
                   capPos, capState, writerState, releaseCount, frame_idx,
                   last_boxes, empty_streak, new_boxes, frame, written, fs,
                   muxCalls, muxOutcome, unlinkResult, renamed, detectCalls,
                   outcomes, results, boxes, pureVars>>

Next ==
    \/ CheckInput
    \/ InitReader
    \/ OpenCapture
    \/ OpenWriter
    \/ ReadFrame
    \/ Detect
    \/ DetectRaises
    \/ RedactWrite
    \/ Release
    \/ MuxAudio
    \/ Finish

Spec == Init /\ [][Next]_vars

\* the run with --mode and --conf-thresh left at their defaults
InitDefaults == Init /\ mode = "blur" /\ conf_thresh = 0

\* main is one sequential thread: whenever a statement can run, one does
FairSpec == InitDefaults /\ [][Next]_vars /\ WF_vars(Next)

\* ---- detect_text_boxes on its own ----
\* reader results the adapter is applied to
AdapterPolys == {PolyIn, PolyOut, PolySmall, PolyFrac, PolyBeyond, PolyTilted}
AdapterConfs == {3, 5, 9}
AdapterDets == {Det(p, c) : p \in AdapterPolys, c \in AdapterConfs}
AdapterResults ==
    UNION {[1..n -> AdapterDets] : n \in 0..MaxDet}

InitAdapter ==
    /\ pc = "adapter"
    /\ exitCode = -1
    /\ detect_every = 1
    /\ conf_thresh \in Thresholds
    /\ mode = "blur"
    /\ numFrames = 1
    /\ \E sz \in Sizes :
         /\ width = sz[1]
         /\ height = sz[2]
         /\ frame = [src |-> 0, shape |-> <<sz[2], sz[1]>>, marks |-> <<>>]
    /\ capPos = 0
    /\ capState = "none"
    /\ writerState = "none"
    /\ releaseCount = 0
    /\ frame_idx = 0
    /\ last_boxes = <<>>
    /\ empty_streak = 0
    /\ new_boxes = <<>>
    /\ written = <<>>
    /\ fs = [temp |-> NoFile, out |-> NoFile]
    /\ muxCalls = 0
    /\ muxOutcome = "none"
    /\ unlinkResult = "none"
    /\ renamed = 0
    /\ detectCalls = <<>>
    /\ outcomes = <<>>
    /\ results \in AdapterResults
    /\ boxes = <<>>
    /\ region_w = 0
    /\ ksize = 0
    /\ img = <<>>
    /\ rboxes = <<>>
    /\ once = <<>>
    /\ twice = <<>>

\* one call of detect_text_boxes on the reader's results
CallAdapter ==
    /\ pc = "adapter"
    /\ boxes' = detect_text_boxes(frame, results, conf_thresh)
    /\ pc' = "adapter_done"
    /\ UNCHANGED <<exitCode, detect_every, conf_thresh, mode, numFrames, width,
                   height, capPos, capState, writerState, releaseCount,
                   frame_idx, last_boxes, empty_streak, new_boxes, frame,
                   written, fs, muxCalls, muxOutcome, unlinkResult, renamed,
                   detectCalls, outcomes, results, pureVars>>

NextAdapter == CallAdapter

SpecAdapter == InitAdapter /\ [][NextAdapter]_vars

\* ======================= properties =======================
Count(seq, v) == Cardinality({k \in DOMAIN seq : seq[k] = v})

\* number of <<>> entries that end a sequence of detection outcomes
TrailingEmpty(seq) ==
    SetMax({k \in 0..Len(seq) :
              \A j \in (Len(seq) - k + 1)..Len(seq) : seq[j] = <<>>})

\* C1: once a detection has returned regions, the cache holds exactly the
\* regions of the most recent non-empty detection while fewer than three empty
\* detections have followed it, and holds nothing from the third on.
C1_Staleness ==
    LET k == TrailingEmpty(outcomes)
        j == Len(outcomes) - k
    IN  j >= 1 =>
          /\ k <= 2 => last_boxes = outcomes[j] /\ last_boxes # <<>>
          /\ k >= 3 => last_boxes = <<>>

\* outcomes [nonempty, empty, empty, empty] with N = 2: the cache is empty
C1_Witness ==
    /\ detect_every = 2
    /\ Len(outcomes) = 4
    /\ outcomes[1] # <<>>
    /\ TrailingEmpty(outcomes) = 3
    /\ last_boxes = <<>>

\* frame i has passed the scheduling test and, if scheduled, the detector call
Scheduled(i) == i < capPos /\ ~(i = capPos - 1 /\ pc = "detect")

\* C2: for N >= 1 the detector has been invoked exactly once on every frame
\* read so far whose index is a multiple of N, and never on any other frame.
C2_DetectionSchedule ==
    detect_every >= 1 =>
      \A i \in 0..numFrames :
        Count(detectCalls, i) =
          IF Scheduled(i) /\ i % detect_every = 0 THEN 1 ELSE 0

\* five frames read with N = 2: the detector ran on frames 0, 2 and 4
C2_Witness ==
    /\ detect_every = 2
    /\ pc = "release"
    /\ capPos = 5
    /\ detectCalls = <<0, 2, 4>>

\* C3 (as claimed): whenever a run has ended with the encoder opened, the
\* encoder has been released exactly once.
C3_ReleasedOnEveryExit ==
    (pc \in {"done", "exited", "crashed"} /\ writerState # "none")
        => (releaseCount = 1 /\ writerState = "released")

\* C4: mux_audio is invoked at most once; when it has been invoked every input
\* frame has been written and the encoder released; it has not been invoked
\* before the release and has been invoked exactly once when the run is done.
C4_RemuxOrder ==
    /\ muxCalls <= 1
    /\ muxCalls >= 1 =>
         /\ Len(written) = numFrames
         /\ \A i \in 0..(numFrames - 1) : written[i + 1].src = i
         /\ writerState = "released"
         /\ releaseCount = 1
    /\ pc \in {"release", "mux"} => muxCalls = 0
    /\ pc \in {"finish", "done"} => muxCalls = 1

C4_Witness ==
    /\ pc = "done"
    /\ muxCalls = 1
    /\ numFrames = MaxFrames
    /\ writerState = "released"

\* C5: after mux_audio with the tool missing or failing, the final output is
\* the video-only file, no temporary file remains and the run ends with exit 0.
C5_MuxFallback ==
    muxOutcome \in {"missing", "failed"} =>
      /\ fs.out = VideoFile(written)
      /\ fs.temp = NoFile
      /\ pc \in {"finish", "done"}
      /\ exitCode = IF pc = "done" THEN 0 ELSE -1

C5_Witness ==
    /\ pc = "done"
    /\ muxOutcome = "failed"
    /\ Len(written) >= 2
    /\ fs.out = VideoFile(written)
    /\ exitCode = 0

\* C6: after mux_audio with the tool exiting zero, the final output is the
\* muxed result and the deletion of the video-only file has been attempted; a
\* failed deletion leaves the output intact and the run still ends with exit 0.
C6_MuxSuccess ==
    muxOutcome = "ok" =>
      /\ fs.out = MuxedFile(written)
      /\ unlinkResult \in {"ok", "oserror"}
      /\ pc \in {"finish", "done"}
      /\ exitCode = IF pc = "done" THEN 0 ELSE -1

C6_Witness ==
    /\ pc = "done"
    /\ muxOutcome = "ok"
    /\ unlinkResult = "oserror"
    /\ fs.out = MuxedFile(written)
    /\ Len(written) >= 1
    /\ exitCode = 0

\* C7 (as claimed): after the remux step the video-only file has been either
\* deleted or renamed, never both and never neither; deleted only after a
\* successful mux, renamed only after a missing or failed one.
C7_DeletedOrRenamed ==
    muxCalls >= 1 =>
      /\ (unlinkResult = "ok") # (renamed = 1)
      /\ unlinkResult = "ok" => muxOutcome = "ok"
      /\ renamed = 1 => muxOutcome \in {"missing", "failed"}

\* C7 (amended): after the remux step either the mux succeeded, one deletion of
\* the video-only file was attempted and no rename made (the file is gone, or
\* still in place when the deletion failed), or the mux was missing or failed,
\* the file was renamed into the final output and no deletion attempted.
C7_DeleteAttemptedOrRenamed ==
    muxCalls >= 1 =>
      \/ /\ muxOutcome = "ok"
         /\ renamed = 0
         /\ unlinkResult \in {"ok", "oserror"}
         /\ fs.temp = IF unlinkResult = "ok" THEN NoFile ELSE VideoFile(written)
      \/ /\ muxOutcome \in {"missing", "failed"}
         /\ renamed = 1
         /\ unlinkResult = "none"
         /\ fs.temp = NoFile
         /\ fs.out = VideoFile(written)

\* the deletion failed: the video-only file is neither deleted nor renamed
C7_Witness ==
    /\ muxCalls = 1
    /\ muxOutcome = "ok"
    /\ unlinkResult = "oserror"
    /\ renamed = 0
    /\ fs.temp = VideoFile(written)

InFrame(b, w, h) ==
    /\ 0 <= b[1] /\ b[1] < b[3] /\ b[3] <= w - 1
    /\ 0 <= b[2] /\ b[2] < b[4] /\ b[4] <= h - 1

\* C8: every cached region, and every region the detector adapter has returned,
\* lies inside the frame and is not degenerate.
C8_RegionInvariant ==
    /\ \A i \in DOMAIN last_boxes : InFrame(last_boxes[i], width, height)
    /\ \A i \in DOMAIN new_boxes : InFrame(new_boxes[i], width, height)

\* the reader returned a polygon sticking out of the frame; the cached region
\* handed to the redactor is the whole frame
C8_Witness ==
    /\ pc = "redact"
    /\ last_boxes # <<>>
    /\ last_boxes[1] = <<0, 0, width - 1, height - 1>>

\* the bounding box the adapter is to derive from one reader result
Truncated(v) ==
    CHOOSE n \in {v \div 2, (v \div 2) + 1} :
        /\ v >= 0 => (2 * n <= v /\ v < 2 * n + 2)
        /\ v < 0 => (2 * n >= v /\ v > 2 * n - 2)
Into(lo, hi, v) == IF v < lo THEN lo ELSE IF v > hi THEN hi ELSE v
ExpectedBox(res, w, h) ==
    LET xs == {Truncated(res.bbox[i][1]) : i \in DOMAIN res.bbox}
        ys == {Truncated(res.bbox[i][2]) : i \in DOMAIN res.bbox}
        lo(S) == CHOOSE m \in S : \A e \in S : m <= e
        hi(S) == CHOOSE m \in S : \A e \in S : m >= e
    IN  <<Into(0, w - 1, lo(xs)), Into(0, h - 1, lo(ys)),
          Into(0, w - 1, hi(xs)), Into(0, h - 1, hi(ys))>>
Qualifies(res, w, h, thresh) ==
    LET b == ExpectedBox(res, w, h)
    IN  res.conf >= thresh /\ b[3] - b[1] >= 10 /\ b[4] - b[2] >= 10
KeptIndices == {i \in DOMAIN results : Qualifies(results[i], width, height, conf_thresh)}
NthKept(k) == CHOOSE i \in KeptIndices : Cardinality({j \in KeptIndices : j < i}) = k - 1

\* C9: detect_text_boxes returns, in input order, exactly the clamped bounding
\* boxes of the results with confidence >= threshold whose clamped box is at
\* least 10 wide and 10 high.
C9_AdapterFilter ==
    pc = "adapter_done" =>
      /\ Len(boxes) = Cardinality(KeptIndices)
      /\ \A k \in 1..Len(boxes) :
           boxes[k] = ExpectedBox(results[NthKept(k)], width, height)

\* two results kept in order, the first at the threshold, one dropped between
C9_Witness ==
    /\ pc = "adapter_done"
    /\ Len(results) = MaxDet
    /\ Len(boxes) = MaxDet - 1
    /\ conf_thresh = 5
    /\ results[1].conf = 5
    /\ 1 \in KeptIndices

\* C10: the frames written so far are the first frames of the input, in order,
\* none missing or repeated; at end of input every frame read has been written.
C10_FrameOrder ==
    /\ \A k \in DOMAIN written : written[k].src = k - 1
    /\ Len(written) <= capPos
    /\ pc = "loop" => Len(written) = capPos
    /\ pc \in {"release", "mux", "finish", "done"} =>
         Len(written) = capPos /\ capPos = numFrames

C10_Witness ==
    /\ pc = "release"
    /\ Len(written) = MaxFrames
    /\ written[MaxFrames].src = MaxFrames - 1
    /\ \E k \in DOMAIN written : written[k].marks = <<>>
    /\ \E k \in DOMAIN written : written[k].marks # <<>>

\* the rectangles the redactor has overwritten in a frame, in order
MarkBoxes(fr) == [i \in DOMAIN fr.marks |-> fr.marks[i].box]

\* the first detection returned regions and every later one returned none
OnlyFirstDetects ==
    /\ detect_every >= 1
    /\ outcomes # <<>>
    /\ outcomes[1] # <<>>
    /\ \A j \in 2..Len(outcomes) : outcomes[j] = <<>>

\* C11: when the detection on frame 0 returns regions and every later
\* detection returns none, each written frame with index below 3N is redacted
\* with exactly those regions and each written frame from index 3N on with none.
C11_RedactionWindow ==
    OnlyFirstDetects =>
      \A k \in DOMAIN written :
        MarkBoxes(written[k]) =
          IF k - 1 < 3 * detect_every THEN outcomes[1] ELSE <<>>

\* N = 2: frame 5 is the last one redacted, frame 6 is written untouched
C11_Witness ==
    /\ OnlyFirstDetects
    /\ detect_every = 2
    /\ Len(written) = 7
    /\ written[6].marks # <<>>
    /\ written[7].marks = <<>>

\* ---- the ksize computation on its own ----
\* every variable of the frame loop at rest, for the specifications of the
\* pure functions
LoopIdle ==
    /\ exitCode = -1
    /\ detect_every = 1
    /\ conf_thresh = 0
    /\ numFrames = 1
    /\ width = 0
    /\ height = 0
    /\ capPos = 0
    /\ capState = "none"
    /\ writerState = "none"
    /\ releaseCount = 0
    /\ frame_idx = 0
    /\ last_boxes = <<>>
    /\ empty_streak = 0
    /\ new_boxes = <<>>
    /\ written = <<>>
    /\ fs = [temp |-> NoFile, out |-> NoFile]
    /\ muxCalls = 0
    /\ muxOutcome = "none"
    /\ unlinkResult = "none"
    /\ renamed = 0
    /\ detectCalls = <<>>
    /\ outcomes = <<>>
    /\ results = <<>>
    /\ boxes = <<>>

InitKernel ==
    /\ pc = "kernel"
    /\ LoopIdle
    /\ mode = "blur"
    /\ frame = NoFrame
    /\ region_w \in 0..MaxWidth
    /\ ksize = 0
    /\ img = <<>>
    /\ rboxes = <<>>
    /\ once = <<>>
    /\ twice = <<>>

\* the two ksize lines of the blur branch for a region region_w wide
CallKernel ==
    /\ pc = "kernel"
    /\ ksize' = KernelSize(region_w)
    /\ pc' = "kernel_done"
    /\ UNCHANGED <<exitCode, detect_every, conf_thresh, mode, numFrames, width,
                   height, capPos, capState, writerState, releaseCount,
                   frame_idx, last_boxes, empty_streak, new_boxes, frame,
                   written, fs, muxCalls, muxOutcome, unlinkResult, renamed,
                   detectCalls, outcomes, results, boxes, region_w, img,
                   rboxes, once, twice>>

NextKernel == CallKernel

SpecKernel == InitKernel /\ [][NextKernel]_vars

\* ---- blur_or_black on its own ----
RedactSizes == {<<3, 3>>}                  \* <<width, height>>
RawPixels == {<<1>>, <<2>>}
RedactBoxes == {<<0, 0, 2, 2>>, <<1, 1, 2, 2>>, <<-1, 1, 9, 9>>, <<2, 0, 2, 2>>}
RegionLists == UNION {[1..n -> RedactBoxes] : n \in 0..MaxRegions}

InitRedact ==
    /\ pc = "redactor"
    /\ LoopIdle
    /\ mode \in Modes
    /\ \E sz \in RedactSizes :
         /\ frame = [src |-> 0, shape |-> <<sz[2], sz[1]>>, marks |-> <<>>]
         /\ img \in [(0..(sz[2] - 1)) \X (0..(sz[1] - 1)) -> RawPixels]
    /\ rboxes \in RegionLists
    /\ region_w = 0
    /\ ksize = 0
    /\ once = <<>>
    /\ twice = <<>>

\* blur_or_black on the frame, and again on its result, with the same regions
CallRedact ==
    /\ pc = "redactor"
    /\ LET f1 == blur_or_black(frame, rboxes, mode)
           f2 == blur_or_black(f1, rboxes, mode)
       IN  /\ once' = Render(img, f1.marks, 1)
           /\ twice' = Render(img, f2.marks, 1)
           /\ frame' = f2
    /\ pc' = "redactor_done"
    /\ UNCHANGED <<exitCode, detect_every, conf_thresh, mode, numFrames, width,
                   height, capPos, capState, writerState, releaseCount,
                   frame_idx, last_boxes, empty_streak, new_boxes,
                   written, fs, muxCalls, muxOutcome, unlinkResult, renamed,
                   detectCalls, outcomes, results, boxes, region_w, ksize,
                   img, rboxes>>

NextRedact == CallRedact

SpecRedact == InitRedact /\ [][NextRedact]_vars

\* C12: the ksize computed for any region width >= 0 is odd and at least 15.
C12_KernelOddAtLeast15 ==
    pc = "kernel_done" => (ksize % 2 = 1 /\ ksize >= 15)

\* width 48: 48 // 3 = 16 is even and above 15, the kernel is 17
C12_Witness ==
    /\ pc = "kernel_done"
    /\ region_w = 48
    /\ ksize = 17

\* C13: in mode black, redacting twice with the same regions leaves exactly
\* the pixels that redacting once leaves.
C13_BlackIdempotent ==
    (pc = "redactor_done" /\ mode = "black") => twice = once

\* two regions, at least one pixel blacked and at least one left alone
C13_Witness ==
    /\ pc = "redactor_done"
    /\ mode = "black"
    /\ Len(rboxes) = 2
    /\ \E p \in DOMAIN img : once[p] = <<0>>
    /\ \E p \in DOMAIN img : once[p] = img[p]
    /\ twice = once

\* C14: a run ended by SystemExit (input not a regular file, or video source
\* not opened) has exit status 1 and has not opened the encoder, created the
\* video-only file, written a frame or invoked mux_audio.
C14_FatalInput ==
    pc = "exited" =>
      /\ exitCode = 1
      /\ writerState = "none"
      /\ releaseCount = 0
      /\ fs = [temp |-> NoFile, out |-> NoFile]
      /\ written = <<>>
      /\ muxCalls = 0
      /\ muxOutcome = "none"

C14_Witness ==
    /\ pc = "exited"
    /\ exitCode = 1
    /\ capState = "none"
    /\ fs.temp = NoFile

\* C15: every step taken while the current frame's index is not a multiple of
\* N leaves last_boxes and empty_streak unchanged, and the step that writes
\* such a frame writes it redacted with exactly the cached regions.
C15_NonDetectionFrame ==
    [][ ( /\ detect_every >= 1
          /\ pc \in {"detect", "redact"}
          /\ frame_idx % detect_every # 0 )
        => /\ last_boxes' = last_boxes
           /\ empty_streak' = empty_streak
           /\ written' = Append(written, frame')
           /\ frame'.src = frame_idx
           /\ MarkBoxes(frame') = last_boxes ]_vars

\* N = 2: frame 1 has been written with the regions detected on frame 0
C15_Witness ==
    /\ detect_every = 2
    /\ pc = "loop"
    /\ Len(written) = 2
    /\ last_boxes # <<>>
    /\ MarkBoxes(written[2]) = last_boxes

Fresh == last_boxes # <<>> /\ empty_streak = 0
Draining == last_boxes # <<>> /\ empty_streak \in 1..2
EmptyByStreak == last_boxes = <<>> /\ empty_streak >= 3
ExactlyOne(a, b, c) == (a /\ ~b /\ ~c) \/ (~a /\ b /\ ~c) \/ (~a /\ ~b /\ c)

\* C16 (as claimed): from the moment the cache is created it is in exactly one
\* of Fresh (regions, streak 0), Draining (regions, streak 1..2) and Empty
\* (no regions, streak >= 3).
C16_ThreeStates ==
    pc \in {"loop", "detect", "redact"} =>
      ExactlyOne(Fresh, Draining, EmptyByStreak)

NoRegionYet == \A j \in DOMAIN outcomes : outcomes[j] = <<>>
EmptyState ==
    /\ last_boxes = <<>>
    /\ empty_streak >= 3 \/ (NoRegionYet /\ empty_streak = Len(outcomes))

\* C16 (amended): the cache is always in exactly one of Fresh, Draining and
\* Empty, where Empty is: no regions, and either the streak is >= 3 or no
\* detection has returned a region yet and the streak counts the detections
\* made so far (0 at the start).
C16_ThreeStatesFromStart ==
    ExactlyOne(Fresh, Draining, EmptyState)

\* one empty detection and none with regions: no regions, streak 1
C16_Witness ==
    /\ pc = "redact"
    /\ last_boxes = <<>>
    /\ empty_streak = 1
    /\ Len(outcomes) = 1

\* the detector has raised: one more call than completed detections
DetectorRaised == Len(detectCalls) > Len(outcomes)

\* C17: once the detector has raised on a frame, the run has ended with exit
\* status 1, exactly the frames before that one are written, mux_audio has not
\* been invoked and no final output exists.
C17_DetectionFatal ==
    DetectorRaised =>
      /\ pc = "crashed"
      /\ exitCode = 1
      /\ Len(written) = detectCalls[Len(detectCalls)]
      /\ \A k \in DOMAIN written : written[k].src < detectCalls[Len(detectCalls)]
      /\ muxCalls = 0
      /\ muxOutcome = "none"
      /\ fs.out = NoFile

\* the detector raised on frame 2 after frames 0 and 1 were written
C17_Witness ==
    /\ DetectorRaised
    /\ pc = "crashed"
    /\ detectCalls[Len(detectCalls)] = 2
    /\ Len(written) = 2

\* C18: empty_streak is never negative, is at most 2 while regions are cached,
\* and equals the number of empty detections since the last one with regions
\* (or since the start).
C18_StreakInvariant ==
    /\ empty_streak >= 0
    /\ last_boxes # <<>> => empty_streak <= 2
    /\ empty_streak >= 3 => last_boxes = <<>>
    /\ empty_streak = TrailingEmpty(outcomes)

\* regions, three empty detections, regions again, two empty detections
C18_Witness ==
    /\ Len(outcomes) = 7
    /\ outcomes[1] # <<>>
    /\ outcomes[4] = <<>>
    /\ outcomes[5] # <<>>
    /\ empty_streak = 2
    /\ last_boxes = outcomes[5]

\* the run has finished with the processed video at the final output path
Completed ==
    /\ pc = "done"
    /\ exitCode = 0
    /\ capState = "released"
    /\ writerState = "released"
    /\ releaseCount = 1
    /\ muxCalls = 1
    /\ capPos = numFrames
    /\ Len(written) = numFrames
    /\ fs.out \in {MuxedFile(written), VideoFile(written)}

\* C19: for N >= 1, once the frame loop is entered the run either completes
\* (loop ended, source and encoder released, mux_audio run once, processed
\* video at the final output path) or the detector has raised.
C19_Termination ==
    (pc = "loop" /\ detect_every >= 1) ~> (Completed \/ DetectorRaised)

\* an input with zero frames: the run completes with an empty video
C19_Witness ==
    /\ Completed
    /\ numFrames = 0
    /\ detect_every >= 1
    /\ fs.out = VideoFile(<<>>)

====
